---- MODULE Spec2Model ----
(***************************************************************************)
(* A model of the attribute reconciliation code of Blaze/UI (attrs.js):    *)
(* AttributeHandler and its subclasses, makeAttributeHandler and           *)
(* ElementAttributesUpdater.prototype.update, acting on one DOM element,   *)
(* and of the asynchronous test helpers of livedata_tests.js:              *)
(* ExpectationManager and testAsyncMulti.                                  *)
(*                                                                         *)
(* JavaScript values are records [t, s]: t is the type tag and, for a      *)
(* string, s is the sequence of its space-free segments, i.e. the result   *)
(* of str.split(' ').  The empty string is <<"">>, "a b" is <<"a","b">>    *)
(* and "a  b" is <<"a","","b">>.                                           *)
(***************************************************************************)
EXTENDS Integers, Sequences, FiniteSets, TLC

VARIABLES
  elem,           \* the DOM element the updater is bound to (this.elem)
  activeElement,  \* document.activeElement: "body", "elem" or "select"
  handlers,       \* this.handlers, in property insertion order
  lastOp,         \* the operation that produced this state
  arg,            \* newAttrs of the last update call
  ncalls,         \* number of handler.update calls the last update call made
  lastOld,        \* `var oldValue` when the last update call ended
  err,            \* the exception the last operation ended with, or "none"
  em,             \* the ExpectationManager: closed, dead, outstanding
  cbs,            \* per callback expect returned: how often it was invoked
  called,         \* which of done and cancel have been called on em
  emCompleted,    \* how often em called its onComplete
  cb,             \* the callback the last step invoked, 0 if none
  pc,             \* where testAsyncMulti is: "none", "alone", "start",
                  \* "running" (in func), "waiting" (after em.done()), "over"
  remaining,      \* number of functions left in `remaining`
  started,        \* number of functions started so far
  timer,          \* the batch timer: "none", "armed", "cleared", "fired"
  completions     \* how often the test's onComplete was called

\* the variables of the asynchronous test helpers
tvars == <<em, cbs, called, emCompleted, cb, pc, remaining, started, timer,
           completions>>

vars == <<elem, activeElement, handlers, lastOp, arg, ncalls, lastOld, err,
          em, cbs, called, emCompleted, cb, pc, remaining, started, timer,
          completions>>

(***************************************************************************)
(* Bounds of the model.                                                    *)
(***************************************************************************)
MaxKeys == 2      \* keys in one newAttrs object
MaxSegs == 2      \* segments of a class string (desired or written externally)
NumFuncs == 2     \* functions given to testAsyncMulti
MaxExpect == 2    \* callbacks one ExpectationManager hands out
MaxInvoke == 2    \* invocations of one callback

(***************************************************************************)
(* JavaScript values.                                                      *)
(***************************************************************************)
Null      == [t |-> "null", s |-> <<>>]
Undefined == [t |-> "undefined", s |-> <<>>]
Str(segs) == [t |-> "string", s |-> segs]
Num5      == [t |-> "number", s |-> <<"5">>]    \* the number 5
EmptyStr  == Str(<<"">>)

\* String(v), as setAttribute and the value property convert their argument
JSString(v) ==
  IF v.t = "string" THEN v
  ELSE IF v.t = "number" THEN Str(v.s)
  ELSE IF v.t = "null" THEN Str(<<"null">>)
  ELSE Str(<<"undefined">>)

\* the truthiness test of `v ? ... : ...`
Truthy(v) ==
  \/ v.t = "string" /\ v # EmptyStr
  \/ v.t = "number"

\* v == null (loose equality: null and undefined)
LooseNull(v) == v.t \in {"null", "undefined"}

(***************************************************************************)
(* Array helpers of attrs.js.                                              *)
(***************************************************************************)
arrayCompact(array) == SelectSeq(array, LAMBDA item : item # "")

arrayContains(array, item) == \E i \in 1..Len(array) : array[i] = item

\* a variant that drops only the first occurrence
arrayWithoutFirst(array, item) ==
  IF ~arrayContains(array, item) THEN array
  ELSE LET first == CHOOSE i \in 1..Len(array) :
                      array[i] = item /\ \A j \in 1..(i - 1) : array[j] # item
       IN  SubSeq(array, 1, first - 1) \o SubSeq(array, first + 1, Len(array))

arrayWithout(array, item) == SelectSeq(array, LAMBDA x : x # item)

\* array.join(' ') as a string value: [].join(' ') is the empty string
Join(array) == IF array = <<>> THEN EmptyStr ELSE Str(array)

(***************************************************************************)
(* The DOM element.  attrs maps <<namespace, name>> of each attribute the  *)
(* element carries to its string value; className is the class string      *)
(* (className, or className.baseVal / the class attribute of an SVG        *)
(* element); props holds the reflected boolean properties; value is the    *)
(* live value property of a form control.                                  *)
(***************************************************************************)
XlinkNS == "http://www.w3.org/1999/xlink"

NewElement(tagName, svg, hasSelect) ==
  [tagName |-> tagName, svg |-> svg, hasSelect |-> hasSelect,
   attrs |-> [k \in {} |-> EmptyStr], className |-> <<"">>,
   props |-> [p \in {"checked", "selected"} |-> FALSE],
   value |-> EmptyStr]

setAttributeNS(element, ns, name, value) ==
  [element EXCEPT !.attrs =
     [k \in DOMAIN element.attrs \cup {<<ns, name>>} |->
        IF k = <<ns, name>> THEN JSString(value) ELSE element.attrs[k]]]

removeAttributeNS(element, ns, name) ==
  [element EXCEPT !.attrs =
     [k \in DOMAIN element.attrs \ {<<ns, name>>} |-> element.attrs[k]]]

setAttribute(element, name, value) == setAttributeNS(element, "", name, value)

removeAttribute(element, name) == removeAttributeNS(element, "", name)

\* element.value = v: the value property turns null into the empty string
setValueProperty(element, v) ==
  [element EXCEPT !.value = IF v.t = "null" THEN EmptyStr ELSE JSString(v)]

\* the result of one handler.update call
Done(element, n) == [elem |-> element, muts |-> n, err |-> "none"]
Throw(element, e) == [elem |-> element, muts |-> 0, err |-> e]

(***************************************************************************)
(* AttributeHandler.prototype.update                                       *)
(***************************************************************************)
AttributeHandlerUpdate(h, element, oldValue, value) ==
  IF value = Null
    THEN IF oldValue # Null
           THEN Done(removeAttribute(element, h.name), 1)
           ELSE Done(element, 0)
    ELSE Done(setAttribute(element, h.name, value), 1)

(***************************************************************************)
(* BaseClassHandler.update, with the accessors of ClassHandler and         *)
(* SVGClassHandler.                                                        *)
(***************************************************************************)
HasAccessors(type) == type \in {"class", "svgclass"}

RECURSIVE RemoveOldClasses(_, _, _, _)
RemoveOldClasses(classes, oldClasses, newClasses, i) ==
  IF i > Len(oldClasses) THEN classes
  ELSE RemoveOldClasses(
         IF ~arrayContains(newClasses, oldClasses[i])
           THEN arrayWithout(classes, oldClasses[i])
           ELSE classes,
         oldClasses, newClasses, i + 1)

\* a variant that appends a new token without looking at the live list
RECURSIVE AddNewClassesUnchecked(_, _, _, _)
AddNewClassesUnchecked(classes, oldClasses, newClasses, i) ==
  IF i > Len(newClasses) THEN classes
  ELSE AddNewClassesUnchecked(
         IF ~arrayContains(oldClasses, newClasses[i])
           THEN Append(classes, newClasses[i])
           ELSE classes,
         oldClasses, newClasses, i + 1)

RECURSIVE AddNewClasses(_, _, _, _)
AddNewClasses(classes, oldClasses, newClasses, i) ==
  IF i > Len(newClasses) THEN classes
  ELSE AddNewClasses(
         IF ~arrayContains(oldClasses, newClasses[i])
              /\ ~arrayContains(classes, newClasses[i])
           THEN Append(classes, newClasses[i])
           ELSE classes,
         oldClasses, newClasses, i + 1)

\* a variant that writes the new value over the live class string
BaseClassHandlerOverwrite(h, element, oldValue, value) ==
  IF ~HasAccessors(h.type) THEN Throw(element, "Error")
  ELSE IF Truthy(value) /\ value.t # "string" THEN Throw(element, "TypeError")
  ELSE Done([element EXCEPT !.className =
               Join(IF Truthy(value) THEN arrayCompact(value.s) ELSE <<>>).s], 1)

\* a variant that splits oldValue and value before it looks for the accessors
BaseClassHandlerLateCheck(h, element, oldValue, value) ==
  IF (Truthy(oldValue) /\ oldValue.t # "string")
       \/ (Truthy(value) /\ value.t # "string")
    THEN Throw(element, "TypeError")
  ELSE IF ~HasAccessors(h.type) THEN Throw(element, "Error")
  ELSE
    LET oldClasses == IF Truthy(oldValue) THEN arrayCompact(oldValue.s) ELSE <<>>
        newClasses == IF Truthy(value) THEN arrayCompact(value.s) ELSE <<>>
        classes    == arrayCompact(element.className)
        removed    == RemoveOldClasses(classes, oldClasses, newClasses, 1)
        added      == AddNewClasses(removed, oldClasses, newClasses, 1)
    IN  Done([element EXCEPT !.className = Join(added).s], 1)

BaseClassHandlerUpdate(h, element, oldValue, value) ==
  IF ~HasAccessors(h.type) THEN Throw(element, "Error")
  \* oldValue.split / value.split of a truthy non-string
  ELSE IF (Truthy(oldValue) /\ oldValue.t # "string")
            \/ (Truthy(value) /\ value.t # "string")
    THEN Throw(element, "TypeError")
  ELSE
    LET oldClasses == IF Truthy(oldValue) THEN arrayCompact(oldValue.s) ELSE <<>>
        newClasses == IF Truthy(value) THEN arrayCompact(value.s) ELSE <<>>
        classes    == arrayCompact(element.className)
        removed    == RemoveOldClasses(classes, oldClasses, newClasses, 1)
        added      == AddNewClasses(removed, oldClasses, newClasses, 1)
    IN  Done([element EXCEPT !.className = Join(added).s], 1)

(***************************************************************************)
(* BooleanHandler                                                          *)
(***************************************************************************)
\* BooleanHandler.focused: "true", "false" or "throw"
BooleanFocused(element, active) ==
  IF element.tagName = "INPUT"
    THEN IF active = "elem" THEN "true" ELSE "false"
  ELSE IF element.tagName = "OPTION"
    THEN IF element.hasSelect /\ active = "select" THEN "true" ELSE "false"
  ELSE "throw"

BooleanHandlerUpdate(h, element, oldValue, value, active) ==
  LET focused == BooleanFocused(element, active) IN
  IF focused = "throw" THEN Throw(element, "Error")
  ELSE IF focused = "true" THEN Done(element, 0)
  ELSE IF LooseNull(value)
    THEN IF ~LooseNull(oldValue)
           THEN Done([element EXCEPT !.props[h.name] = FALSE], 1)
           ELSE Done(element, 0)
    ELSE Done([element EXCEPT !.props[h.name] = TRUE], 1)

(***************************************************************************)
(* ValueHandler                                                            *)
(***************************************************************************)
ValueHandlerUpdate(h, element, oldValue, value, active) ==
  LET focused == (active = "elem") IN
  IF ~focused THEN Done(setValueProperty(element, value), 1)
  ELSE Done(element, 0)

(***************************************************************************)
(* XlinkHandler: h.value is this.value, already set by the updater         *)
(***************************************************************************)
XlinkHandlerUpdate(h, element, oldValue, value) ==
  IF value = Null
    THEN IF oldValue # Null
           THEN Done(removeAttributeNS(element, XlinkNS, h.name), 1)
           ELSE Done(element, 0)
    ELSE Done(setAttributeNS(element, XlinkNS, h.name, h.value), 1)

\* handler.update(element, oldValue, value), dispatched on the handler's type
HandlerUpdate(h, element, oldValue, value, active) ==
  CASE h.type = "attribute" -> AttributeHandlerUpdate(h, element, oldValue, value)
    [] h.type \in {"class", "svgclass", "baseclass"} ->
         BaseClassHandlerUpdate(h, element, oldValue, value)
    [] h.type = "boolean" -> BooleanHandlerUpdate(h, element, oldValue, value, active)
    [] h.type = "value" -> ValueHandlerUpdate(h, element, oldValue, value, active)
    [] h.type = "xlink" -> XlinkHandlerUpdate(h, element, oldValue, value)

(***************************************************************************)
(* makeAttributeHandler.  Attribute names are strings; the names the model *)
(* uses that start with "xlink:" are listed with their substring(6).       *)
(***************************************************************************)
isSVGElement(element) == element.svg

XlinkLocal(name) ==
  CASE name = "xlink:href" -> "href"
    [] OTHER -> ""

IsXlinkName(name) == XlinkLocal(name) # ""

NewHandler(type, key, name, value) ==
  [key |-> key, type |-> type, name |-> name, value |-> value]

\* a variant that takes the boolean strategy for either flag on either control
makeAttributeHandlerEitherFlag(element, name, value) ==
  IF name = "class"
    THEN IF isSVGElement(element)
           THEN NewHandler("svgclass", name, name, value)
           ELSE NewHandler("class", name, name, value)
  ELSE IF element.tagName \in {"OPTION", "INPUT"} /\ name \in {"selected", "checked"}
    THEN NewHandler("boolean", name, name, value)
  ELSE IF element.tagName \in {"TEXTAREA", "INPUT"} /\ name = "value"
    THEN NewHandler("value", name, name, value)
  ELSE IF IsXlinkName(name)
    THEN NewHandler("xlink", name, XlinkLocal(name), value)
  ELSE NewHandler("attribute", name, name, value)

\* a variant that takes the boolean strategy without looking at the element
makeAttributeHandlerAnyElement(element, name, value) ==
  IF name = "class"
    THEN IF isSVGElement(element)
           THEN NewHandler("svgclass", name, name, value)
           ELSE NewHandler("class", name, name, value)
  ELSE IF name \in {"selected", "checked"}
    THEN NewHandler("boolean", name, name, value)
  ELSE IF element.tagName \in {"TEXTAREA", "INPUT"} /\ name = "value"
    THEN NewHandler("value", name, name, value)
  ELSE IF IsXlinkName(name)
    THEN NewHandler("xlink", name, XlinkLocal(name), value)
  ELSE NewHandler("attribute", name, name, value)

makeAttributeHandler(element, name, value) ==
  IF name = "class"
    THEN IF isSVGElement(element)
           THEN NewHandler("svgclass", name, name, value)
           ELSE NewHandler("class", name, name, value)
  ELSE IF (element.tagName = "OPTION" /\ name = "selected")
            \/ (element.tagName = "INPUT" /\ name = "checked")
    THEN NewHandler("boolean", name, name, value)
  ELSE IF element.tagName \in {"TEXTAREA", "INPUT"} /\ name = "value"
    THEN NewHandler("value", name, name, value)
  ELSE IF IsXlinkName(name)
    THEN NewHandler("xlink", name, XlinkLocal(name), value)
  ELSE NewHandler("attribute", name, name, value)

(***************************************************************************)
(* ElementAttributesUpdater.  this.handlers is a sequence of handlers in   *)
(* insertion order (the order for..in visits them); newAttrs is a sequence *)
(* of [key, value] entries with distinct keys, in for..in order.           *)
(***************************************************************************)
hasOwnProperty(obj, k) == \E i \in 1..Len(obj) : obj[i].key = k

Lookup(obj, k) == obj[CHOOSE i \in 1..Len(obj) : obj[i].key = k]

Delete(obj, k) == SelectSeq(obj, LAMBDA e : e.key # k)

SetValue(hs, k, v) ==
  [i \in 1..Len(hs) |-> IF hs[i].key = k THEN [hs[i] EXCEPT !.value = v] ELSE hs[i]]

Call(k, oldValue, value) == [key |-> k, oldValue |-> oldValue, value |-> value]

\* the running state of one update call; oldValue is the function-scoped
\* `var oldValue`, shared by both loops and never reset between iterations
StartUpdate(element, hs) ==
  [elem |-> element, handlers |-> hs, oldValue |-> Undefined,
   calls |-> <<>>, muts |-> 0, err |-> "none"]

\* handler.value = value; handler.update(elem, oldValue, value);
\* and, when it returns and value is null, delete handlers[k]
ApplyHandler(st, k, oldValue, value, active) ==
  LET hs1 == SetValue(st.handlers, k, value)
      r   == HandlerUpdate(Lookup(hs1, k), st.elem, oldValue, value, active)
  IN  [elem     |-> r.elem,
       handlers |-> IF r.err = "none" /\ value = Null THEN Delete(hs1, k) ELSE hs1,
       oldValue |-> oldValue,
       calls    |-> Append(st.calls, Call(k, oldValue, value)),
       muts     |-> st.muts + r.muts,
       err      |-> r.err]

\* first loop: for (var k in handlers) if (! newAttrs.hasOwnProperty(k)) ...
RECURSIVE RemoveLoop(_, _, _, _, _)
RemoveLoop(st, keys, i, newAttrs, active) ==
  IF i > Len(keys) \/ st.err # "none" THEN st
  ELSE IF ~hasOwnProperty(newAttrs, keys[i])
    THEN RemoveLoop(
           ApplyHandler(st, keys[i], Lookup(st.handlers, keys[i]).value, Null, active),
           keys, i + 1, newAttrs, active)
    ELSE RemoveLoop(st, keys, i + 1, newAttrs, active)

\* a variant that remembers the value of a new handler without calling it
UpdateEntryNoFirstCall(st, k, value, active) ==
  LET tracked == hasOwnProperty(st.handlers, k)
      make    == ~tracked /\ value # Null
      hs1     == IF make
                   THEN Append(st.handlers, makeAttributeHandler(st.elem, k, value))
                   ELSE st.handlers
      handler == tracked \/ make
      oldValue == IF tracked THEN Lookup(st.handlers, k).value
                  ELSE IF make THEN value
                  ELSE st.oldValue
      st1     == [st EXCEPT !.handlers = hs1, !.oldValue = oldValue]
  IN  IF oldValue # value
        THEN IF ~handler
               THEN [st1 EXCEPT !.err = "TypeError"]
               ELSE ApplyHandler(st1, k, oldValue, value, active)
        ELSE st1

\* one iteration of the second loop, for the entry k: value of newAttrs
UpdateEntry(st, k, value, active) ==
  LET tracked == hasOwnProperty(st.handlers, k)
      make    == ~tracked /\ value # Null
      hs1     == IF make
                   THEN Append(st.handlers, makeAttributeHandler(st.elem, k, value))
                   ELSE st.handlers
      handler == tracked \/ make         \* FALSE: `handler` is still null
      oldValue == IF tracked THEN Lookup(st.handlers, k).value
                  ELSE IF make THEN Null
                  ELSE st.oldValue
      st1     == [st EXCEPT !.handlers = hs1, !.oldValue = oldValue]
  IN  IF oldValue # value
        THEN IF ~handler
               THEN [st1 EXCEPT !.err = "TypeError"]   \* handler.value = value on null
               ELSE ApplyHandler(st1, k, oldValue, value, active)
        ELSE st1

\* second loop: for (var k in newAttrs) ...
RECURSIVE UpdateLoop(_, _, _, _)
UpdateLoop(st, newAttrs, i, active) ==
  IF i > Len(newAttrs) \/ st.err # "none" THEN st
  ELSE UpdateLoop(UpdateEntry(st, newAttrs[i].key, newAttrs[i].value, active),
                  newAttrs, i + 1, active)

Keys(obj) == [i \in 1..Len(obj) |-> obj[i].key]

\* a variant that runs the loop over newAttrs before the loop over handlers
UpdaterUpdateSwapped(element, hs, newAttrs, active) ==
  RemoveLoop(UpdateLoop(StartUpdate(element, hs), newAttrs, 1, active),
             Keys(hs), 1, newAttrs, active)

\* ElementAttributesUpdater.prototype.update
UpdaterUpdate(element, hs, newAttrs, active) ==
  UpdateLoop(RemoveLoop(StartUpdate(element, hs), Keys(hs), 1, newAttrs, active),
             newAttrs, 1, active)

(***************************************************************************)
(* Inputs.                                                                 *)
(***************************************************************************)
Names == {"id", "class", "checked", "selected", "value", "xlink:href"}

\* the names the multi-key maps are drawn from: one per strategy that does not
\* look at the focus
CoreNames == {"id", "class", "xlink:href"}

Tokens == {"a", "b", "c"}

\* the empty string and the strings of at most n tokens
Strings(n) ==
  {EmptyStr} \cup {Str(segs) : segs \in UNION {[1..k -> Tokens] : k \in 1..n}}

PlainValues == {Null, Str(<<"a">>), Str(<<"b">>)}

ClassValues == {Null} \cup Strings(MaxSegs)

AnyValues == PlainValues \cup {Num5}

Entries(names, values) == {[key |-> k, value |-> v] : k \in names, v \in values}

\* newAttrs objects: at most n entries, no key twice
Maps(entries, n) ==
  {m \in UNION {[1..k -> entries] : k \in 0..n} :
     \A i, j \in 1..Len(m) : m[i].key = m[j].key => i = j}

CoreMaps == Maps(Entries(CoreNames, PlainValues), MaxKeys)

SingleMaps == Maps(Entries(Names, PlainValues), 1)

ClassMaps == Maps(Entries({"class"}, ClassValues), 1)

AnyMaps == Maps(Entries(Names, AnyValues), 1)

Elements ==
  {NewElement("INPUT", FALSE, FALSE), NewElement("TEXTAREA", FALSE, FALSE),
   NewElement("OPTION", FALSE, TRUE), NewElement("OPTION", FALSE, FALSE),
   NewElement("DIV", FALSE, FALSE), NewElement("svg", TRUE, FALSE)}

(***************************************************************************)
(* ExpectationManager.  A method is an operator from the manager's fields  *)
(* to its fields after the call and what the call did: the error it threw  *)
(* (expect) or whether it called this.onComplete (check_complete).         *)
(***************************************************************************)
NewManager == [closed |-> FALSE, dead |-> FALSE, outstanding |-> 0]

TooLate == "Too late to add more expectations to the test"

\* a variant that counts the expectation before it looks at closed
expectCountsFirst(m) ==
  [em  |-> [m EXCEPT !.outstanding = @ + 1],
   err |-> IF m.closed THEN TooLate ELSE "none"]

expect(m) ==
  IF m.closed THEN [em |-> m, err |-> TooLate]
  ELSE [em |-> [m EXCEPT !.outstanding = @ + 1], err |-> "none"]

\* a variant that does not look at dead
check_completeUnlatched(m) ==
  IF m.outstanding = 0 /\ m.closed
    THEN [em |-> [m EXCEPT !.dead = TRUE], fire |-> TRUE]
    ELSE [em |-> m, fire |-> FALSE]

\* _check_complete
check_complete(m) ==
  IF m.outstanding = 0 /\ m.closed /\ ~m.dead
    THEN [em |-> [m EXCEPT !.dead = TRUE], fire |-> TRUE]
    ELSE [em |-> m, fire |-> FALSE]

done(m) == check_complete([m EXCEPT !.closed = TRUE])

cancel(m) == [m EXCEPT !.dead = TRUE]

\* the function expect returned, when its expectation holds
callback(m) == check_complete([m EXCEPT !.outstanding = @ - 1])

(***************************************************************************)
(* The state machine: an updater bound to one element, the page's focus    *)
(* and a second writer of the element's class string.                      *)
(***************************************************************************)
\* no test helper is in use
NoTest ==
  /\ em = NewManager
  /\ cbs = <<>>
  /\ called = {}
  /\ emCompleted = 0
  /\ cb = 0
  /\ pc = "none"
  /\ remaining = 0
  /\ started = 0
  /\ timer = "none"
  /\ completions = 0

Init ==
  /\ elem \in Elements
  /\ activeElement = "body"
  /\ handlers = <<>>
  /\ lastOp = "init"
  /\ arg = <<>>
  /\ ncalls = 0
  /\ lastOld = Undefined
  /\ err = "none"
  /\ NoTest

NoCallYet ==
  /\ arg = <<>>
  /\ ncalls = 0
  /\ lastOld = Undefined
  /\ err = "none"

\* an element that is no form control
InitPlain == Init /\ elem.tagName \in {"DIV", "svg"}

\* an HTML element that is no form control
InitClass == Init /\ elem.tagName = "DIV"

NoCall ==
  /\ arg' = <<>>
  /\ ncalls' = 0
  /\ lastOld' = Undefined
  /\ err' = "none"

\* updater.update(newAttrs)
Update(newAttrs) ==
  \E st \in {UpdaterUpdate(elem, handlers, newAttrs, activeElement)} :
  /\ elem' = st.elem
  /\ handlers' = st.handlers
  /\ ncalls' = Len(st.calls)
  /\ lastOld' = st.oldValue
  /\ err' = st.err
  /\ arg' = newAttrs
  /\ lastOp' = "update"
  /\ UNCHANGED activeElement
  /\ UNCHANGED tvars

\* what document.activeElement becomes when the user focuses the control
FocusTargets(element) ==
  IF element.tagName \in {"INPUT", "TEXTAREA"} THEN {"elem"}
  ELSE IF element.tagName = "OPTION" /\ element.hasSelect THEN {"select"}
  ELSE {}

Focus ==
  /\ activeElement = "body"
  /\ \E t \in FocusTargets(elem) : activeElement' = t
  /\ lastOp' = "focus"
  /\ NoCall
  /\ UNCHANGED <<elem, handlers>>
  /\ UNCHANGED tvars

Blur ==
  /\ activeElement # "body"
  /\ activeElement' = "body"
  /\ lastOp' = "blur"
  /\ NoCall
  /\ UNCHANGED <<elem, handlers>>
  /\ UNCHANGED tvars

\* other code assigns the element's class string
ExternalWrite(className) ==
  /\ elem' = [elem EXCEPT !.className = className.s]
  /\ lastOp' = "write"
  /\ NoCall
  /\ UNCHANGED <<activeElement, handlers>>
  /\ UNCHANGED tvars

\* maps of several keys, on an element that cannot hold the focus
Next == \E newAttrs \in CoreMaps : Update(newAttrs)

Spec == InitPlain /\ [][Next]_vars

\* every attribute name and element kind, one attribute at a time
NextSingle ==
  \/ \E newAttrs \in SingleMaps : Update(newAttrs)
  \/ Focus
  \/ Blur

SpecSingle == Init /\ [][NextSingle]_vars

\* the class attribute alone, with the second writer
NextClass ==
  \/ \E newAttrs \in ClassMaps : Update(newAttrs)
  \/ \E className \in Strings(MaxSegs) : ExternalWrite(className)

SpecClass == InitClass /\ [][NextClass]_vars

\* desired values that are not strings
NextAny ==
  \/ \E newAttrs \in AnyMaps : Update(newAttrs)
  \/ Focus
  \/ Blur

SpecAny == Init /\ [][NextAny]_vars

\* a class handler used on its own: an instance of BaseClassHandler itself
\* (or of a subclass made with extend that defines no accessors), or of the
\* class handler of the element's kind
InitHandler ==
  /\ elem \in {e \in Elements : e.tagName \in {"DIV", "svg"}}
  /\ activeElement = "body"
  /\ lastOp = "init"
  /\ NoCallYet
  /\ NoTest
  /\ \E type \in {"baseclass", makeAttributeHandler(elem, "class", Null).type} :
       handlers = <<NewHandler(type, "class", "class", Null)>>

\* handler.update(elem, oldValue, value), called on the handler directly
HandlerCall(oldValue, value) ==
  \E r \in {HandlerUpdate(handlers[1], elem, oldValue, value, activeElement)} :
  /\ elem' = r.elem
  /\ err' = r.err
  /\ ncalls' = 1
  /\ lastOld' = oldValue
  /\ arg' = <<[key |-> handlers[1].key, value |-> value]>>
  /\ lastOp' = "call"
  /\ UNCHANGED <<activeElement, handlers>>
  /\ UNCHANGED tvars

NextHandler ==
  \/ \E oldValue, value \in AnyValues : HandlerCall(oldValue, value)
  \/ \E className \in Strings(MaxSegs) : ExternalWrite(className)

SpecHandler == InitHandler /\ [][NextHandler]_vars

(***************************************************************************)
(* The test helpers.  A test function is the environment: while it runs    *)
(* (pc = "running") it calls expect and may invoke callbacks it got, then  *)
(* it returns or throws; after it returned, callbacks are invoked by the   *)
(* code they were handed to, any number of times, and the timer may fire.  *)
(* Callbacks of an earlier batch act on that batch's manager only, which   *)
(* is dead by then, and are left out.                                      *)
(***************************************************************************)
\* no element is in use
NoElement ==
  /\ elem = NewElement("DIV", FALSE, FALSE)
  /\ activeElement = "body"
  /\ handlers = <<>>
  /\ lastOp = "init"
  /\ NoCallYet

UnchangedElement == UNCHANGED <<elem, activeElement, handlers, arg, ncalls, lastOld>>

\* new ExpectationManager(onComplete), onComplete counting its calls
InitEM ==
  /\ NoElement
  /\ em = NewManager
  /\ cbs = <<>>
  /\ called = {}
  /\ emCompleted = 0
  /\ cb = 0
  /\ pc = "alone"
  /\ remaining = 0
  /\ started = 0
  /\ timer = "none"
  /\ completions = 0

\* testAsyncMulti(name, funcs) up to the first runNext()
InitMulti ==
  /\ NoElement
  /\ em = NewManager
  /\ cbs = <<>>
  /\ called = {}
  /\ emCompleted = 0
  /\ cb = 0
  /\ pc = "start"
  /\ remaining \in 0..NumFuncs
  /\ started = 0
  /\ timer = "none"
  /\ completions = 0

\* runNext(), entered with manager m that completed n times, timer t,
\* callback counts c and called methods d
RunNext(m, n, t, c, d) ==
  IF remaining = 0
    THEN /\ completions' = completions + 1
         /\ pc' = "over"
         /\ em' = m
         /\ emCompleted' = n
         /\ timer' = t
         /\ cbs' = c
         /\ called' = d
         /\ UNCHANGED <<remaining, started>>
    ELSE /\ remaining' = remaining - 1
         /\ started' = started + 1
         /\ em' = NewManager
         /\ emCompleted' = 0
         /\ cbs' = <<>>
         /\ called' = {}
         /\ timer' = "armed"
         /\ pc' = "running"
         /\ UNCHANGED completions

\* self.onComplete() of manager m: a counter for a manager on its own,
\* clearTimeout(timer); runNext() in testAsyncMulti
EmOnComplete(m, c, d) ==
  IF pc = "alone"
    THEN /\ em' = m
         /\ emCompleted' = emCompleted + 1
         /\ cbs' = c
         /\ called' = d
         /\ UNCHANGED <<pc, remaining, started, timer, completions>>
    ELSE RunNext(m, emCompleted + 1, "cleared", c, d)

\* the body testAsync runs: the first runNext()
Start ==
  /\ pc = "start"
  /\ RunNext(em, emCompleted, timer, cbs, called)
  /\ cb' = 0
  /\ lastOp' = "start"
  /\ err' = "none"
  /\ UnchangedElement

\* em.expect(...), by the running function or by code it started
Expect ==
  /\ pc \in {"alone", "running", "waiting", "over"}
  /\ em.closed \/ Len(cbs) < MaxExpect
  /\ \E r \in {expect(em)} :
       /\ em' = r.em
       /\ err' = r.err
       /\ cbs' = IF r.err = "none" THEN Append(cbs, 0) ELSE cbs
  /\ cb' = 0
  /\ lastOp' = "expect"
  /\ UNCHANGED <<called, emCompleted, pc, remaining, started, timer, completions>>
  /\ UnchangedElement

\* the i-th callback is invoked and its expectation holds
Callback(i) ==
  /\ pc \in {"alone", "running", "waiting", "over"}
  /\ i \in 1..Len(cbs)
  /\ cbs[i] < MaxInvoke
  /\ \E r \in {callback(em)} :
       IF r.fire
         THEN EmOnComplete(r.em, [cbs EXCEPT ![i] = @ + 1], called)
         ELSE /\ em' = r.em
              /\ cbs' = [cbs EXCEPT ![i] = @ + 1]
              /\ UNCHANGED <<called, emCompleted, pc, remaining, started, timer,
                             completions>>
  /\ cb' = i
  /\ lastOp' = "callback"
  /\ err' = "none"
  /\ UnchangedElement

\* the i-th callback is invoked and its expectation throws
CallbackThrows(i) ==
  /\ pc \in {"alone", "running", "waiting", "over"}
  /\ i \in 1..Len(cbs)
  /\ cbs[i] < MaxInvoke
  /\ cbs' = [cbs EXCEPT ![i] = @ + 1]
  /\ cb' = i
  /\ lastOp' = "callback"
  /\ err' = "Error"
  /\ UNCHANGED <<em, called, emCompleted, pc, remaining, started, timer, completions>>
  /\ UnchangedElement

\* em.done() on a manager on its own
EmDone ==
  /\ pc = "alone"
  /\ \E r \in {done(em)} :
       IF r.fire
         THEN EmOnComplete(r.em, cbs, called \cup {"done"})
         ELSE /\ em' = r.em
              /\ called' = called \cup {"done"}
              /\ UNCHANGED <<cbs, emCompleted, pc, remaining, started, timer,
                             completions>>
  /\ cb' = 0
  /\ lastOp' = "done"
  /\ err' = "none"
  /\ UnchangedElement

\* em.cancel() on a manager on its own
EmCancel ==
  /\ pc = "alone"
  /\ em' = cancel(em)
  /\ called' = called \cup {"cancel"}
  /\ cb' = 0
  /\ lastOp' = "cancel"
  /\ err' = "none"
  /\ UNCHANGED <<cbs, emCompleted, pc, remaining, started, timer, completions>>
  /\ UnchangedElement

\* func returns: runNext goes on to em.done()
FuncReturn ==
  /\ pc = "running"
  /\ \E r \in {done(em)} :
       IF r.fire
         THEN EmOnComplete(r.em, cbs, called \cup {"done"})
         ELSE /\ em' = r.em
              /\ called' = called \cup {"done"}
              /\ pc' = "waiting"
              /\ UNCHANGED <<cbs, emCompleted, remaining, started, timer,
                             completions>>
  /\ cb' = 0
  /\ lastOp' = "return"
  /\ err' = "none"
  /\ UnchangedElement

\* func throws: the catch clause of runNext
FuncThrow ==
  /\ pc = "running"
  /\ em' = cancel(em)
  /\ called' = called \cup {"cancel"}
  /\ completions' = completions + 1
  /\ pc' = "over"
  /\ cb' = 0
  /\ lastOp' = "throw"
  /\ err' = "none"
  /\ UNCHANGED <<cbs, emCompleted, remaining, started, timer>>
  /\ UnchangedElement

\* the function given to Meteor.setTimeout runs; no timer fires while a
\* test function is running
Timeout ==
  /\ timer = "armed"
  /\ pc \in {"waiting", "over"}
  /\ em' = cancel(em)
  /\ called' = called \cup {"cancel"}
  /\ completions' = completions + 1
  /\ timer' = "fired"
  /\ pc' = "over"
  /\ cb' = 0
  /\ lastOp' = "timeout"
  /\ err' = "none"
  /\ UNCHANGED <<cbs, emCompleted, remaining, started>>
  /\ UnchangedElement

\* an ExpectationManager used on its own
NextEM ==
  \/ Expect
  \/ \E i \in 1..MaxExpect : Callback(i)
  \/ \E i \in 1..MaxExpect : CallbackThrows(i)
  \/ EmDone
  \/ EmCancel

SpecEM == InitEM /\ [][NextEM]_vars

\* one run of a testAsyncMulti test
NextMulti ==
  \/ Start
  \/ Expect
  \/ \E i \in 1..MaxExpect : Callback(i)
  \/ \E i \in 1..MaxExpect : CallbackThrows(i)
  \/ FuncReturn
  \/ FuncThrow
  \/ Timeout

SpecMulti == InitMulti /\ [][NextMulti]_vars

(***************************************************************************)
(* Properties.  ThisCall is the update call a step makes, recomputed from  *)
(* the state before the step and the newAttrs the step records.            *)
(***************************************************************************)
ThisCall == UpdaterUpdate(elem, handlers, arg', activeElement)

IsUpdate == lastOp' = "update"

Range(seq) == {seq[i] : i \in 1..Len(seq)}

\* C1: update(M) right after an update(M) that returned makes no handler
\* call and no mutation call, returns without error and leaves the element
\* and the handler table as they were.
C1_SecondUpdateIsNoOp ==
  [][(lastOp = "update" /\ err = "none" /\ IsUpdate /\ arg' = arg) =>
       /\ \A st \in {ThisCall} : st.calls = <<>> /\ st.muts = 0
       /\ err' = "none"
       /\ elem' = elem
       /\ handlers' = handlers]_vars

\* the update call of a step, stopped before the i-th key of newAttrs
BeforeEntry(i) ==
  UpdateLoop(RemoveLoop(StartUpdate(elem, handlers), Keys(handlers), 1, arg',
                        activeElement),
             SubSeq(arg', 1, i - 1), 1, activeElement)

\* C2: a key of newAttrs whose value is null and that is not tracked when the
\* loop reaches it causes no handler call, no mutation and no error, at any
\* position in newAttrs.
C2_UntrackedNullIsNoOp ==
  [][IsUpdate =>
       \A i \in 1..Len(arg') :
         LET before == BeforeEntry(i)
             after  == UpdateEntry(before, arg'[i].key, arg'[i].value, activeElement)
         IN  (/\ before.err = "none"
              /\ arg'[i].value = Null
              /\ ~hasOwnProperty(before.handlers, arg'[i].key))
             => /\ after.err = "none"
                /\ after.calls = before.calls
                /\ after.muts = before.muts
                /\ after.elem = before.elem
                /\ after.handlers = before.handlers]_vars

HasValueProperty(element) == element.tagName \in {"INPUT", "TEXTAREA"}

\* C3: update({value: v}) on a focused control leaves the live value property
\* alone, and the first update({value: v}) after the control lost the focus
\* sets the live value property to v.
C3_FocusSuppression ==
  [][(/\ IsUpdate
      /\ HasValueProperty(elem)
      /\ Len(arg') = 1
      /\ arg'[1].key = "value"
      /\ arg'[1].value # Null) =>
       /\ activeElement = "elem" => elem'.value = elem.value
       /\ lastOp = "blur" => elem'.value = arg'[1].value]_vars

\* the element carries nothing an updater could have put there
Bare(element) ==
  /\ DOMAIN element.attrs = {}
  /\ \A p \in DOMAIN element.props : ~element.props[p]
  /\ element.value = EmptyStr
  /\ arrayCompact(element.className) = <<>>

\* C4: after update({}) the handler table is empty and the element carries no
\* attribute, reflected flag, value or class token (the updater is the
\* element's only writer here).
C4_RemovalCompleteness ==
  (lastOp = "update" /\ arg = <<>>) => (handlers = <<>> /\ Bare(elem))

\* the tokens of a class string value
TokensOf(v) == IF Truthy(v) THEN Range(arrayCompact(v.s)) ELSE {}

LiveTokens(element) == Range(arrayCompact(element.className))

\* the element's live state for the attribute of handler h is h's value
LiveEquals(h, element) ==
  CASE h.type = "attribute" ->
         /\ <<"", h.name>> \in DOMAIN element.attrs
         /\ element.attrs[<<"", h.name>>] = h.value
    [] h.type = "xlink" ->
         /\ <<XlinkNS, h.name>> \in DOMAIN element.attrs
         /\ element.attrs[<<XlinkNS, h.name>>] = h.value
    [] h.type = "boolean" -> element.props[h.name]
    [] h.type = "value" -> element.value = h.value
    [] OTHER -> LiveTokens(element) = TokensOf(h.value)

\* C5: between update calls, the element's live state for every tracked name
\* equals the value its handler remembers (the updater is the element's only
\* writer here).
C5_LiveEqualsRemembered ==
  \A i \in 1..Len(handlers) : LiveEquals(handlers[i], elem)

\* the handler calls of a step; a step that updates the class attribute alone
\* makes at most one
ClassCalls == IF IsUpdate THEN UNION {Range(c) : c \in {ThisCall.calls}} ELSE {}

\* C6 as stated: after a class update from old to new, every live token that
\* is no token of old is still live and every token of new is live.
C6_EveryNewTokenLive ==
  [][\A call \in ClassCalls :
       /\ \A t \in LiveTokens(elem) \ TokensOf(call.oldValue) :
            t \in LiveTokens(elem')
       /\ \A t \in TokensOf(call.value) : t \in LiveTokens(elem')]_vars

\* C6 amended: after a class update from old to new, every live token that
\* is no token of old is still live, every token of new that is no token of
\* old is live, and a token of both old and new is live exactly if it was.
C6_TokenPreservation ==
  [][\A call \in ClassCalls :
       /\ \A t \in LiveTokens(elem) \ TokensOf(call.oldValue) :
            t \in LiveTokens(elem')
       /\ \A t \in TokensOf(call.value) \ TokensOf(call.oldValue) :
            t \in LiveTokens(elem')
       /\ \A t \in TokensOf(call.value) \cap TokensOf(call.oldValue) :
            t \in LiveTokens(elem') <=> t \in LiveTokens(elem)]_vars

\* live {a, b} with b written by other code, old "a", new "a c": {a, b, c}
C6_Witness ==
  /\ lastOp = "update"
  /\ arg = <<[key |-> "class", value |-> Str(<<"a", "c">>)]>>
  /\ lastOld = Str(<<"a">>)
  /\ ncalls = 1
  /\ elem.className = <<"a", "b", "c">>

\* C7: with class tracked as old, update({class: new}) takes the tokens of
\* old that are no tokens of new out of the live list, every occurrence of
\* them, and keeps every other live token.
C7_TokenRemoval ==
  [][(/\ IsUpdate
      /\ hasOwnProperty(handlers, "class")
      /\ Len(arg') = 1
      /\ arg'[1].key = "class") =>
       LET gone == TokensOf(Lookup(handlers, "class").value) \ TokensOf(arg'[1].value)
       IN  /\ \A t \in gone : t \notin LiveTokens(elem')
           /\ \A t \in LiveTokens(elem) \ gone : t \in LiveTokens(elem')]_vars

\* tracked "a b", live list with c written by other code, update({class: "b"})
C7_Witness ==
  /\ lastOp = "update"
  /\ arg = <<[key |-> "class", value |-> Str(<<"b">>)]>>
  /\ lastOld = Str(<<"a", "b">>)
  /\ ncalls = 1
  /\ elem.className = <<"b", "c">>

IsValid(v) == v.t \in {"null", "string"}

\* C8: an update call given a value that is neither null nor a string ends
\* with an error and no handler remembers such a value.
C8_InvalidInputRejected ==
  (lastOp = "update" /\ \E i \in 1..Len(arg) : ~IsValid(arg[i].value)) =>
    /\ err # "none"
    /\ \A i \in 1..Len(handlers) : IsValid(handlers[i].value)

\* C9 as stated: in one update call every handler call with a null new value
\* comes before every handler call with a non-null new value.
C9_RemovalsFirst ==
  [][IsUpdate =>
       \A c \in {ThisCall.calls} :
         \A i, j \in 1..Len(c) : (c[i].value = Null /\ c[j].value # Null) => i < j]_vars

PositionIn(newAttrs, k) == CHOOSE i \in 1..Len(newAttrs) : newAttrs[i].key = k

\* C9 amended: in one update call the handler calls for names that are no
\* keys of newAttrs are removals and come before every handler call for a
\* key of newAttrs; the calls for keys of newAttrs, removals of keys mapped to
\* null included, come in the key order of newAttrs.
C9_MissingFirstThenKeyOrder ==
  [][IsUpdate =>
       \A c \in {ThisCall.calls} :
         /\ \A i \in 1..Len(c) :
              ~hasOwnProperty(arg', c[i].key) => c[i].value = Null
         /\ \A i, j \in 1..Len(c) :
              (i < j /\ ~hasOwnProperty(arg', c[j].key)) => ~hasOwnProperty(arg', c[i].key)
         /\ \A i, j \in 1..Len(c) :
              (i < j /\ hasOwnProperty(arg', c[i].key) /\ hasOwnProperty(arg', c[j].key))
                => PositionIn(arg', c[i].key) < PositionIn(arg', c[j].key)]_vars

\* one call removed the missing xlink:href, then id was set, then class,
\* mapped to null, was removed
C9_Witness ==
  /\ lastOp = "update"
  /\ arg = <<[key |-> "id", value |-> Str(<<"a">>)],
             [key |-> "class", value |-> Null]>>
  /\ ncalls = 3
  /\ lastOld # Null
  /\ err = "none"
  /\ Keys(handlers) = <<"id">>

\* C10: every name tracked with value v that newAttrs lacks or maps to null
\* gets exactly one handler call (v, null) in the update call and is not
\* tracked after it.
C10_RemovalStep ==
  [][IsUpdate =>
       \A c \in {ThisCall.calls}, n \in 1..Len(handlers) :
         LET k == handlers[n].key
         IN  (~hasOwnProperty(arg', k) \/ Lookup(arg', k).value = Null) =>
               /\ Cardinality({i \in 1..Len(c) : c[i].key = k}) = 1
               /\ \A i \in 1..Len(c) :
                    c[i].key = k =>
                      (c[i].oldValue = handlers[n].value /\ c[i].value = Null)
               /\ ~hasOwnProperty(handlers', k)]_vars

\* how often token t occurs in the element's live token list
Occurrences(element, t) ==
  Cardinality({i \in 1..Len(arrayCompact(element.className)) :
                 arrayCompact(element.className)[i] = t})

\* C11 as stated: after a class update from old to new no token of old that
\* is no token of new is live, and every token of new that is no token of old
\* occurs exactly once in the live list, whatever the live list held.
C11_AddedExactlyOnce ==
  [][\A call \in ClassCalls :
       /\ \A t \in TokensOf(call.oldValue) \ TokensOf(call.value) :
            Occurrences(elem', t) = 0
       /\ \A t \in TokensOf(call.value) \ TokensOf(call.oldValue) :
            Occurrences(elem', t) = 1]_vars

\* C11 amended: after a class update from old to new no token of old that is
\* no token of new is live, and every token of new that is no token of old
\* occurs once if the live list lacked it and as often as before otherwise.
C11_AddedOnceIfMissing ==
  [][\A call \in ClassCalls :
       /\ \A t \in TokensOf(call.oldValue) \ TokensOf(call.value) :
            Occurrences(elem', t) = 0
       /\ \A t \in TokensOf(call.value) \ TokensOf(call.oldValue) :
            Occurrences(elem', t) =
              IF Occurrences(elem, t) = 0 THEN 1 ELSE Occurrences(elem, t)]_vars

\* other code wrote "c c", then old "a", new "a c": c is still there twice
C11_Witness ==
  /\ lastOp = "update"
  /\ arg = <<[key |-> "class", value |-> Str(<<"a", "c">>)]>>
  /\ lastOld = Str(<<"a">>)
  /\ ncalls = 1
  /\ elem.className = <<"c", "c">>

\* the strategy a handler type implements
StrategyOf(type) ==
  CASE type \in {"class", "svgclass", "baseclass"} -> "token-set"
    [] type = "boolean" -> "boolean"
    [] type = "value" -> "value"
    [] type = "xlink" -> "namespaced"
    [] OTHER -> "default"

\* the dispatch table as stated: either flag on either control is boolean
TableAsStated(element, name) ==
  IF name = "class" THEN "token-set"
  ELSE IF name \in {"checked", "selected"} /\ element.tagName \in {"INPUT", "OPTION"}
    THEN "boolean"
  ELSE IF name = "value" /\ element.tagName \in {"TEXTAREA", "INPUT"} THEN "value"
  ELSE IF name \in {"xlink:href"} THEN "namespaced"
  ELSE "default"

\* the dispatch table with checked on an input and selected on an option only
TableByFlag(element, name) ==
  IF name = "class" THEN "token-set"
  ELSE IF \/ name = "checked" /\ element.tagName = "INPUT"
          \/ name = "selected" /\ element.tagName = "OPTION"
    THEN "boolean"
  ELSE IF name = "value" /\ element.tagName \in {"TEXTAREA", "INPUT"} THEN "value"
  ELSE IF name \in {"xlink:href"} THEN "namespaced"
  ELSE "default"

\* a name tracked before and after a step keeps its handler's type and name
HandlerReused ==
  \A i \in 1..Len(handlers), j \in 1..Len(handlers') :
    handlers[i].key = handlers'[j].key =>
      handlers[i].type = handlers'[j].type /\ handlers[i].name = handlers'[j].name

\* C12 as stated: the handler of every tracked name has the strategy the
\* table gives for the element kind and the name (checked or selected on an
\* input or option is boolean), and a name keeps its handler while tracked.
C12_DispatchAsStated ==
  [][/\ \A i \in 1..Len(handlers') :
          StrategyOf(handlers'[i].type) = TableAsStated(elem', handlers'[i].key)
     /\ HandlerReused]_vars

\* C12 amended: the same, with the boolean strategy for checked on an input
\* and selected on an option only; selected on an input and checked on an
\* option get the default strategy.
C12_DispatchByFlag ==
  [][/\ \A i \in 1..Len(handlers') :
          StrategyOf(handlers'[i].type) = TableByFlag(elem', handlers'[i].key)
     /\ HandlerReused]_vars

\* selected on an input, tracked with the default strategy and updated from
\* "a" to "b" through the same handler
C12_Witness ==
  /\ lastOp = "update"
  /\ elem.tagName = "INPUT"
  /\ Len(handlers) = 1
  /\ handlers[1].key = "selected"
  /\ handlers[1].type = "attribute"
  /\ handlers[1].value = Str(<<"b">>)
  /\ lastOld = Str(<<"a">>)
  /\ ncalls = 1

\* C13: an update call on a class handler that lacks the accessors ends with
\* the "Missing methods" error and leaves the element as it was, whatever the
\* element's class string and the arguments are (also arguments whose split
\* would fail), the handler's first call included.
C13_FailFast ==
  [][(lastOp' = "call" /\ ~HasAccessors(handlers[1].type)) =>
       (err' = "Error" /\ elem' = elem)]_vars

\* the first call on an accessor-less handler, with a value that has no
\* split, on an element whose class string other code wrote
C13_Witness ==
  /\ lastOp = "call"
  /\ handlers[1].type = "baseclass"
  /\ arg[1].value = Num5
  /\ elem.className = <<"b", "c">>
  /\ err = "Error"

\* the names an update step installs a handler for
Installed == {k \in Range(Keys(handlers')) : ~hasOwnProperty(handlers, k)}

\* C14: for every name an update call installs a handler for, the first
\* handler call of that update call for the name has old value null and the
\* non-null value newAttrs gives the name; this also when the call ends with
\* an error, so no handler is in the table without its initial call.
C14_InitialCall ==
  [][IsUpdate =>
       \A c \in {ThisCall.calls}, k \in Installed :
         \E i \in 1..Len(c) :
           /\ c[i].key = k
           /\ c[i].oldValue = Null
           /\ c[i].value # Null
           /\ c[i].value = Lookup(arg', k).value
           /\ \A j \in 1..(i - 1) : c[j].key # k]_vars

\* one update call installed the handlers of id and class, each with its
\* initial call
C14_Witness ==
  /\ lastOp = "update"
  /\ arg = <<[key |-> "id", value |-> Str(<<"a">>)],
             [key |-> "class", value |-> Str(<<"b">>)]>>
  /\ Keys(handlers) = <<"id", "class">>
  /\ ncalls = 2
  /\ lastOld = Null
  /\ err = "none"

\* C15: after an update call that returned normally the tracked names are
\* the keys of newAttrs with a non-null value, and each handler remembers the
\* value newAttrs gives its name, whatever the updater's state was before.
C15_TableMatchesInput ==
  (lastOp = "update" /\ err = "none") =>
    /\ Range(Keys(handlers)) = {arg[i].key : i \in {j \in 1..Len(arg) : arg[j].value # Null}}
    /\ \A i \in 1..Len(handlers) :
         /\ hasOwnProperty(arg, handlers[i].key)
         /\ Lookup(arg, handlers[i].key).value = handlers[i].value

\* C16: in one run of testAsyncMulti the test's onComplete is called exactly
\* once, on every path and under every interleaving of callbacks and the
\* timer; stated here is its safety half, that no run calls it twice.
C16_OnCompleteOnce == completions <= 1

\* C17: an ExpectationManager calls its onComplete at most once, and only
\* when done() has been called, outstanding is zero and cancel() has not
\* been called; after cancel() it never calls it.
C17_CompleteOnceWhenDue ==
  [][/\ emCompleted' \in {emCompleted, emCompleted + 1}
     /\ emCompleted' = emCompleted + 1 =>
          /\ emCompleted = 0
          /\ "done" \in called'
          /\ em'.outstanding = 0
          /\ "cancel" \notin called'
     /\ "cancel" \in called => emCompleted' = emCompleted]_vars

\* two expectations, done() and then both callbacks: the second callback
\* completed the manager
C17_Witness ==
  /\ pc = "alone"
  /\ emCompleted = 1
  /\ lastOp = "callback"
  /\ cbs = <<1, 1>>
  /\ called = {"done"}

\* C18: testAsyncMulti starts function i+1 only in the step in which
\* function i returns or a callback is invoked after it returned, and only
\* when every callback expect created during function i has been invoked;
\* a callback invoked while function i runs starts nothing.
C18_NextAfterAllCallbacks ==
  [][/\ (started' = started + 1 /\ started >= 1) =>
          /\ \/ lastOp' = "return" /\ pc = "running"
             \/ lastOp' = "callback" /\ pc = "waiting"
          /\ \A j \in 1..Len(cbs) :
               cbs[j] >= 1 \/ (lastOp' = "callback" /\ cb' = j)
     /\ (pc = "running" /\ lastOp' = "callback") =>
          (started' = started /\ pc' = "running" /\ completions' = completions)]_vars

\* C19: once done() has been called on an ExpectationManager, every later
\* expect() throws "Too late to add more expectations to the test" and
\* leaves the outstanding count as it was.
C19_TooLate ==
  [][(lastOp' = "expect" /\ "done" \in called) =>
       (err' = TooLate /\ em'.outstanding = em.outstanding /\ cbs' = cbs)]_vars

\* expect() after done(), with one expectation outstanding
C19_Witness ==
  /\ pc = "alone"
  /\ lastOp = "expect"
  /\ err = TooLate
  /\ "done" \in called
  /\ em.outstanding = 1

\* the names that have a boolean handler before or after a step
BooleanKeys ==
  {h.key : h \in {x \in Range(handlers) \cup Range(handlers') : x.type = "boolean"}}

\* C20: through updater.update a boolean handler is only ever in the table
\* of, and called on, an INPUT or OPTION element, and no update call ends
\* with the boolean strategy's "Expected INPUT or OPTION element" error,
\* for every element kind, name, value and focus.
C20_BooleanOnlyOnControls ==
  [][IsUpdate =>
       /\ \A i \in 1..Len(handlers') :
            handlers'[i].type = "boolean" => elem'.tagName \in {"INPUT", "OPTION"}
       /\ \A c \in {ThisCall.calls} : \A i \in 1..Len(c) :
            c[i].key \in BooleanKeys => elem.tagName \in {"INPUT", "OPTION"}
       /\ err' # "Error"]_vars

\* the boolean handler of checked was called on an input and set the flag
C20_Witness ==
  /\ lastOp = "update"
  /\ elem.tagName = "INPUT"
  /\ Len(handlers) = 1
  /\ handlers[1].type = "boolean"
  /\ handlers[1].key = "checked"
  /\ elem.props["checked"]
  /\ ncalls = 1
  /\ err = "none"

====
